---- MODULE Spec2Model ----
(***************************************************************************)
(* Model of print.py: read data_out2.csv, split it into lines, parse each  *)
(* line into (item, timestamp), accumulate one cumulative-count series per *)
(* tracked kind, then hand the series to matplotlib.                       *)
(*                                                                         *)
(* A Python str is modelled as a sequence of one-character strings, so     *)
(* that strip, split and int are computed character by character.          *)
(***************************************************************************)
EXTENDS Integers, Sequences, FiniteSets, TLC

VARIABLES data, lines, i, pc,
          pipeline_count, audio_engine_count,
          x_pipeline, y_pipeline, x_audio_engine, y_audio_engine,
          calls, run, first

vars == <<data, lines, i, pc, pipeline_count, audio_engine_count,
          x_pipeline, y_pipeline, x_audio_engine, y_audio_engine,
          calls, run, first>>

series == <<x_pipeline, y_pipeline, x_audio_engine, y_audio_engine>>
counters == <<pipeline_count, audio_engine_count>>

-----------------------------------------------------------------------------
(* Bounds of the model *)

MaxLines == 3

-----------------------------------------------------------------------------
(* String literals of the program *)

pipeline == <<"p","i","p","e","l","i","n","e">>
audio_engine == <<"a","u","d","i","o","_","e","n","g","i","n","e">>
Sep == <<",", " ">>
NL == <<"\n">>

(* The ASCII characters str.strip() and int() treat as whitespace. *)
Whitespace == {" ", "\t", "\n", "\r", "\f"}

Digits == {"0","1","2","3","4","5","6","7","8","9"}

DigitVal(c) ==
    CASE c = "0" -> 0 [] c = "1" -> 1 [] c = "2" -> 2 [] c = "3" -> 3
      [] c = "4" -> 4 [] c = "5" -> 5 [] c = "6" -> 6 [] c = "7" -> 7
      [] c = "8" -> 8 [] c = "9" -> 9

-----------------------------------------------------------------------------
(* str.strip(): drop leading and trailing whitespace characters. *)
Strip(s) ==
    LET keep == {k \in 1..Len(s) : s[k] \notin Whitespace}
    IN  IF keep = {} THEN <<>>
        ELSE LET a == CHOOSE k \in keep : \A m \in keep : k <= m
                 b == CHOOSE k \in keep : \A m \in keep : k >= m
             IN  SubSeq(s, a, b)

(* str.split(sep): cut at each occurrence of sep, scanning left to right. *)
RECURSIVE Split(_, _)
Split(s, sep) ==
    LET hits == {k \in 1..(Len(s) - Len(sep) + 1) :
                    SubSeq(s, k, k + Len(sep) - 1) = sep}
    IN  IF hits = {} THEN <<s>>
        ELSE LET k == CHOOSE h \in hits : \A m \in hits : h <= m
             IN  <<SubSeq(s, 1, k - 1)>>
                   \o Split(SubSeq(s, k + Len(sep), Len(s)), sep)

(* int(str): surrounding whitespace is ignored, then an optional sign, then *)
(* decimal digits in which single underscores may separate digits.          *)
Unsigned(s) == IF s # <<>> /\ s[1] \in {"+", "-"} THEN Tail(s) ELSE s

IsInt(s) ==
    LET u == Unsigned(Strip(s))
    IN  /\ Len(u) > 0
        /\ \A k \in 1..Len(u) :
              \/ u[k] \in Digits
              \/ /\ u[k] = "_"
                 /\ k > 1 /\ k < Len(u)
                 /\ u[k-1] \in Digits /\ u[k+1] \in Digits

RECURSIVE Magnitude(_, _)
Magnitude(u, acc) ==
    IF u = <<>> THEN acc
    ELSE IF Head(u) = "_" THEN Magnitude(Tail(u), acc)
    ELSE Magnitude(Tail(u), 10 * acc + DigitVal(Head(u)))

IntValue(s) ==
    LET t == Strip(s)
        m == Magnitude(Unsigned(t), 0)
    IN  IF t[1] = "-" THEN 0 - m ELSE m

-----------------------------------------------------------------------------
(* The text f.read() returns for data_out2.csv: any sequence of at most    *)
(* MaxLines sample lines joined by newlines, with optional whitespace      *)
(* before and after. The file is opened in text mode, so the text holds no *)
(* carriage return: every line ending arrives as "\n".                     *)

LineSamples ==
    { pipeline \o Sep \o <<"1">>,
      pipeline \o Sep \o <<"2">>,
      audio_engine \o Sep \o <<"3">>,
      audio_engine \o Sep \o <<" ", "-", "1", "_", "0", "\t">>,
      <<"x">> \o Sep \o <<"7">>,
      pipeline \o <<" ">> \o Sep \o <<"5">>,
      <<"x">> \o Sep \o <<"a">>,
      audio_engine \o <<",", "4">>,
      pipeline \o Sep \o <<"1">> \o Sep \o <<"2">>,
      <<>> }

(* Whitespace before and after the records: <<before, after>> *)
Pads ==
    { << <<>>, <<>> >>,
      << <<"\n", " ">>, <<"\n">> >>,
      << <<>>, <<"\n", "\t", "\n">> >> }

RECURSIVE Join(_)
Join(ls) ==
    IF ls = <<>> THEN <<>>
    ELSE IF Len(ls) = 1 THEN ls[1]
    ELSE ls[1] \o NL \o Join(Tail(ls))

Bodies == UNION { [1..n -> LineSamples] : n \in 0..MaxLines }

Inputs == { p[1] \o Join(b) \o p[2] : p \in Pads, b \in Bodies }

-----------------------------------------------------------------------------
(* print.py:5-10: counters and series at start of a run *)
Fresh ==
    /\ pipeline_count = 0
    /\ audio_engine_count = 0
    /\ x_pipeline = <<>>
    /\ y_pipeline = <<>>
    /\ x_audio_engine = <<>>
    /\ y_audio_engine = <<>>

Init ==
    /\ data \in Inputs
    /\ Fresh
    /\ lines = <<>>
    /\ i = 0
    /\ pc = "read"
    /\ calls = <<>>
    /\ run = 1
    /\ first = <<>>

Reverse(ls) == [k \in 1..Len(ls) |-> ls[Len(ls) + 1 - k]]

(* Variant of Read: the lines are iterated in an order that is not fixed   *)
(* by the file (as when they are first collected into an unordered set).   *)
ReadUnordered ==
    /\ pc = "read"
    /\ lines' \in {Split(Strip(data), NL), Reverse(Split(Strip(data), NL))}
    /\ i' = 1
    /\ pc' = "loop"
    /\ UNCHANGED <<data, counters, series, calls, run, first>>

(* Variant of Read: the lines are taken with splitlines(), which gives no  *)
(* line at all for an empty text.                                          *)
ReadSplitlines ==
    /\ pc = "read"
    /\ lines' = IF Strip(data) = <<>> THEN <<>> ELSE Split(Strip(data), NL)
    /\ i' = 1
    /\ pc' = "loop"
    /\ UNCHANGED <<data, counters, series, calls, run, first>>

(* print.py:12-15: read the whole file, strip it, split it into lines *)
Read ==
    /\ pc = "read"
    /\ lines' = Split(Strip(data), NL)
    /\ i' = 1
    /\ pc' = "loop"
    /\ UNCHANGED <<data, counters, series, calls, run, first>>

(* Variant of Parses: int() is applied only once the kind is known to be   *)
(* a tracked one.                                                          *)
ParsesLazy(line) ==
    LET parts == Split(line, Sep)
    IN  /\ Len(parts) = 2
        /\ (parts[1] \in {pipeline, audio_engine} => IsInt(parts[2]))

(* print.py:16-17: the line unpacks into two fields and the second is an int *)
Parses(line) ==
    LET parts == Split(line, Sep)
    IN  Len(parts) = 2 /\ IsInt(parts[2])

item(line) == Split(line, Sep)[1]
timestamp(line) == IntValue(Split(line, Sep)[2])

InLoop == pc = "loop" /\ i <= Len(lines)

(* Variant of ParseError: the bad line is skipped and the loop goes on. *)
ParseErrorSkips ==
    /\ InLoop
    /\ ~Parses(lines[i])
    /\ i' = i + 1
    /\ UNCHANGED <<data, lines, pc, counters, series, calls, run, first>>

(* print.py:16-17: ValueError from the unpacking or from int() ends the run *)
ParseError ==
    /\ InLoop
    /\ ~Parses(lines[i])
    /\ pc' = "error"
    /\ UNCHANGED <<data, lines, i, counters, series, calls, run, first>>

(* Variant of CountPipeline: the count is appended before the increment. *)
CountPipelineStale ==
    /\ InLoop
    /\ Parses(lines[i])
    /\ item(lines[i]) = pipeline
    /\ pipeline_count' = pipeline_count + 1
    /\ x_pipeline' = Append(x_pipeline, timestamp(lines[i]))
    /\ y_pipeline' = Append(y_pipeline, pipeline_count)
    /\ i' = i + 1
    /\ UNCHANGED <<data, lines, pc, audio_engine_count,
                   x_audio_engine, y_audio_engine, calls, run, first>>

(* Variant of CountPipeline: the kind is matched with startswith. *)
CountPipelinePrefix ==
    /\ InLoop
    /\ Parses(lines[i])
    /\ Len(item(lines[i])) >= Len(pipeline)
    /\ SubSeq(item(lines[i]), 1, Len(pipeline)) = pipeline
    /\ pipeline_count' = pipeline_count + 1
    /\ x_pipeline' = Append(x_pipeline, timestamp(lines[i]))
    /\ y_pipeline' = Append(y_pipeline, pipeline_count + 1)
    /\ i' = i + 1
    /\ UNCHANGED <<data, lines, pc, audio_engine_count,
                   x_audio_engine, y_audio_engine, calls, run, first>>

(* Variant of CountPipeline: the timestamp is inserted at the front. *)
CountPipelinePrepend ==
    /\ InLoop
    /\ Parses(lines[i])
    /\ item(lines[i]) = pipeline
    /\ pipeline_count' = pipeline_count + 1
    /\ x_pipeline' = <<timestamp(lines[i])>> \o x_pipeline
    /\ y_pipeline' = Append(y_pipeline, pipeline_count + 1)
    /\ i' = i + 1
    /\ UNCHANGED <<data, lines, pc, audio_engine_count,
                   x_audio_engine, y_audio_engine, calls, run, first>>

(* print.py:19-22 *)
CountPipeline ==
    /\ InLoop
    /\ Parses(lines[i])
    /\ item(lines[i]) = pipeline
    /\ pipeline_count' = pipeline_count + 1
    /\ x_pipeline' = Append(x_pipeline, timestamp(lines[i]))
    /\ y_pipeline' = Append(y_pipeline, pipeline_count + 1)
    /\ i' = i + 1
    /\ UNCHANGED <<data, lines, pc, audio_engine_count,
                   x_audio_engine, y_audio_engine, calls, run, first>>

(* Variant of CountAudioEngine: the count is not appended. *)
CountAudioEngineNoY ==
    /\ InLoop
    /\ Parses(lines[i])
    /\ item(lines[i]) # pipeline
    /\ item(lines[i]) = audio_engine
    /\ audio_engine_count' = audio_engine_count + 1
    /\ x_audio_engine' = Append(x_audio_engine, timestamp(lines[i]))
    /\ i' = i + 1
    /\ UNCHANGED <<data, lines, pc, pipeline_count,
                   x_pipeline, y_pipeline, y_audio_engine, calls, run, first>>

(* print.py:23-26 *)
CountAudioEngine ==
    /\ InLoop
    /\ Parses(lines[i])
    /\ item(lines[i]) # pipeline
    /\ item(lines[i]) = audio_engine
    /\ audio_engine_count' = audio_engine_count + 1
    /\ x_audio_engine' = Append(x_audio_engine, timestamp(lines[i]))
    /\ y_audio_engine' = Append(y_audio_engine, audio_engine_count + 1)
    /\ i' = i + 1
    /\ UNCHANGED <<data, lines, pc, pipeline_count,
                   x_pipeline, y_pipeline, calls, run, first>>

(* Variant of SkipOther: the second branch is a plain else, so every other *)
(* kind is counted as audio_engine.                                        *)
SkipOtherAsElse ==
    /\ InLoop
    /\ Parses(lines[i])
    /\ item(lines[i]) # pipeline
    /\ item(lines[i]) # audio_engine
    /\ audio_engine_count' = audio_engine_count + 1
    /\ x_audio_engine' = Append(x_audio_engine, timestamp(lines[i]))
    /\ y_audio_engine' = Append(y_audio_engine, audio_engine_count + 1)
    /\ i' = i + 1
    /\ UNCHANGED <<data, lines, pc, pipeline_count,
                   x_pipeline, y_pipeline, calls, run, first>>

(* print.py:19-26: neither branch of the if/elif is taken *)
SkipOther ==
    /\ InLoop
    /\ Parses(lines[i])
    /\ item(lines[i]) # pipeline
    /\ item(lines[i]) # audio_engine
    /\ i' = i + 1
    /\ UNCHANGED <<data, lines, pc, counters, series, calls, run, first>>

(* print.py:29, reached when the for loop is exhausted *)
PlotPipeline ==
    /\ pc = "loop"
    /\ i > Len(lines)
    /\ calls' = Append(calls, <<"plot", x_pipeline, y_pipeline, "pipeline">>)
    /\ pc' = "plot_audio_engine"
    /\ UNCHANGED <<data, lines, i, counters, series, run, first>>

(* Variant of PlotAudioEngine: an empty series is not drawn. *)
PlotAudioEngineSkipEmpty ==
    /\ pc = "plot_audio_engine"
    /\ calls' = IF x_audio_engine = <<>> THEN calls
                ELSE Append(calls,
                       <<"plot", x_audio_engine, y_audio_engine, "audio_engine">>)
    /\ pc' = "xlabel"
    /\ UNCHANGED <<data, lines, i, counters, series, run, first>>

(* print.py:30 *)
PlotAudioEngine ==
    /\ pc = "plot_audio_engine"
    /\ calls' = Append(calls,
                  <<"plot", x_audio_engine, y_audio_engine, "audio_engine">>)
    /\ pc' = "xlabel"
    /\ UNCHANGED <<data, lines, i, counters, series, run, first>>

(* print.py:33 *)
XLabel ==
    /\ pc = "xlabel"
    /\ calls' = Append(calls, <<"xlabel", "Time">>)
    /\ pc' = "ylabel"
    /\ UNCHANGED <<data, lines, i, counters, series, run, first>>

(* print.py:34 *)
YLabel ==
    /\ pc = "ylabel"
    /\ calls' = Append(calls, <<"ylabel", "Count">>)
    /\ pc' = "legend"
    /\ UNCHANGED <<data, lines, i, counters, series, run, first>>

(* print.py:35 *)
Legend ==
    /\ pc = "legend"
    /\ calls' = Append(calls, <<"legend">>)
    /\ pc' = "show"
    /\ UNCHANGED <<data, lines, i, counters, series, run, first>>

(* print.py:38: the window is shown; the script ends when it is dismissed *)
Show ==
    /\ pc = "show"
    /\ calls' = Append(calls, <<"show">>)
    /\ pc' = "done"
    /\ UNCHANGED <<data, lines, i, counters, series, run, first>>

Next ==
    \/ Read
    \/ ParseError
    \/ CountPipeline
    \/ CountAudioEngine
    \/ SkipOther
    \/ PlotPipeline
    \/ PlotAudioEngine
    \/ XLabel
    \/ YLabel
    \/ Legend
    \/ Show

Spec == Init /\ [][Next]_vars

-----------------------------------------------------------------------------
(* A second invocation of the script on the same, unmodified file. The     *)
(* module top level (print.py:5-10) runs again in a new process; `first`   *)
(* keeps what the first invocation ended with.                             *)
Rerun ==
    /\ run = 1
    /\ pc \in {"done", "error"}
    /\ first' = <<pc, series, calls>>
    /\ run' = 2
    /\ pipeline_count' = 0
    /\ audio_engine_count' = 0
    /\ x_pipeline' = <<>>
    /\ y_pipeline' = <<>>
    /\ x_audio_engine' = <<>>
    /\ y_audio_engine' = <<>>
    /\ lines' = <<>>
    /\ i' = 0
    /\ calls' = <<>>
    /\ pc' = "read"
    /\ UNCHANGED data

NextTwice == Next \/ Rerun

SpecTwice == Init /\ [][NextTwice]_vars

-----------------------------------------------------------------------------
(* Vocabulary of the properties, defined on the file content itself and    *)
(* without the operators the actions use.                                  *)

Tracked == {pipeline, audio_engine}

(* The content without surrounding whitespace *)
RECURSIVE Core(_)
Core(s) ==
    IF s = <<>> THEN s
    ELSE IF s[1] \in Whitespace THEN Core(Tail(s))
    ELSE IF s[Len(s)] \in Whitespace THEN Core(SubSeq(s, 1, Len(s) - 1))
    ELSE s

(* Position of the n-th element of a set of positions *)
Nth(S, n) == CHOOSE k \in S : Cardinality({m \in S : m < k}) = n - 1

(* The lines of a text: the pieces between consecutive newline characters *)
LinesOf(s) ==
    LET nl == {k \in 1..Len(s) : s[k] = "\n"}
        n == Cardinality(nl)
    IN  [j \in 1..(n + 1) |->
            SubSeq(s, IF j = 1 THEN 1 ELSE Nth(nl, j - 1) + 1,
                      IF j = n + 1 THEN Len(s) ELSE Nth(nl, j) - 1)]

FileLines == LinesOf(Core(data))

SepAt(l) == {k \in 1..(Len(l) - 1) : l[k] = "," /\ l[k+1] = " "}

(* The text before the first separator (the whole line if there is none) *)
KindField(l) ==
    IF SepAt(l) = {} THEN l ELSE SubSeq(l, 1, Nth(SepAt(l), 1) - 1)

(* The text after the first separator *)
StampField(l) == SubSeq(l, Nth(SepAt(l), 1) + 2, Len(l))

(* '<kind>, <integer>': exactly one separator and an integer after it *)
WellFormedLine(l) == Cardinality(SepAt(l)) = 1 /\ IsInt(StampField(l))

WellFormedInput == \A j \in 1..Len(FileLines) : WellFormedLine(FileLines[j])

(* Indices of the lines whose kind field is exactly `kind` *)
LinesOfKind(kind) ==
    {j \in 1..Len(FileLines) :
        Cardinality(SepAt(FileLines[j])) = 1 /\ KindField(FileLines[j]) = kind}

(* The accumulation loop has consumed every line without an error *)
LoopFinished ==
    \/ pc = "loop" /\ i > Len(lines)
    \/ pc \in {"plot_audio_engine", "xlabel", "ylabel", "legend", "show", "done"}

OneToN(n) == [k \in 1..n |-> k]

(* C1: on a well-formed input, once the loop has finished, the count       *)
(* column of each tracked kind is exactly 1, 2, ..., n, n being the number *)
(* of records of that kind: no gap, no repeat, no reset.                   *)
C1_CountsAreOneToN ==
    (LoopFinished /\ WellFormedInput) =>
        /\ y_pipeline = OneToN(Cardinality(LinesOfKind(pipeline)))
        /\ y_audio_engine = OneToN(Cardinality(LinesOfKind(audio_engine)))

C1_Witness ==
    /\ LoopFinished /\ WellFormedInput
    /\ y_pipeline = <<1, 2>>
    /\ y_audio_engine = <<1>>

(* C2: on a well-formed input, both columns of each tracked kind's series  *)
(* are as long as the number of lines whose kind field is exactly that     *)
(* kind.                                                                   *)
C2_SeriesLengthIsLineCount ==
    (LoopFinished /\ WellFormedInput) =>
        /\ Len(x_pipeline) = Cardinality(LinesOfKind(pipeline))
        /\ Len(y_pipeline) = Cardinality(LinesOfKind(pipeline))
        /\ Len(x_audio_engine) = Cardinality(LinesOfKind(audio_engine))
        /\ Len(y_audio_engine) = Cardinality(LinesOfKind(audio_engine))

(* a line whose kind only starts with 'pipeline' is not counted *)
C2_Witness ==
    /\ LoopFinished /\ WellFormedInput
    /\ Len(x_pipeline) = 1
    /\ Len(x_audio_engine) = 1
    /\ \E j \in 1..Len(FileLines) :
          /\ KindField(FileLines[j]) # pipeline
          /\ Len(KindField(FileLines[j])) > Len(pipeline)
          /\ SubSeq(KindField(FileLines[j]), 1, Len(pipeline)) = pipeline

(* The timestamps of the lines of a kind, in the order of the lines *)
StampsOfKind(kind) ==
    LET S == LinesOfKind(kind)
    IN  [k \in 1..Cardinality(S) |-> IntValue(StampField(FileLines[Nth(S, k)]))]

(* C3: on a well-formed input, the timestamp column of each tracked kind   *)
(* is the timestamps of the lines of that kind in input order, unsorted.   *)
C3_OrderPreserved ==
    (LoopFinished /\ WellFormedInput) =>
        /\ x_pipeline = StampsOfKind(pipeline)
        /\ x_audio_engine = StampsOfKind(audio_engine)

(* decreasing timestamps in the file stay decreasing in the series *)
C3_Witness ==
    /\ LoopFinished /\ WellFormedInput
    /\ x_pipeline = <<2, 1>>
    /\ x_audio_engine = <<3>>

(* C4: a line that parses into a record whose kind is outside the tracked  *)
(* set raises no error and enters no series: the step that processes it    *)
(* leaves both counters, both series and the chart untouched and moves on  *)
(* to the next line.                                                       *)
C4_UnknownKindIgnored ==
    [][ (InLoop /\ WellFormedLine(lines[i]) /\ KindField(lines[i]) \notin Tracked)
          => /\ pc' = "loop"
             /\ i' = i + 1
             /\ UNCHANGED <<counters, series, calls, lines>> ]_vars

(* an unknown-kind line has been passed, earlier records are kept and the  *)
(* loop is at the next line                                                *)
C4_Witness ==
    /\ InLoop
    /\ i = 3
    /\ WellFormedLine(lines[2]) /\ KindField(lines[2]) \notin Tracked
    /\ x_pipeline = <<1>>
    /\ y_pipeline = <<1>>
    /\ x_audio_engine = <<>>

MalformedInput == \E j \in 1..Len(FileLines) : ~WellFormedLine(FileLines[j])

FirstBad ==
    Nth({j \in 1..Len(FileLines) : ~WellFormedLine(FileLines[j])}, 1)

(* C5: if some line does not hold exactly one ', ' or its timestamp field  *)
(* is not an integer, no chart call is ever made: the loop never gets past *)
(* the first such line, and the step taken at that line ends the run in    *)
(* the error state, whatever precedes it.                                  *)
C5_MalformedLineAborts ==
    /\ [](MalformedInput =>
            /\ calls = <<>>
            /\ pc \in {"read", "loop", "error"}
            /\ (pc \in {"loop", "error"} => i <= FirstBad)
            /\ (pc = "error" => i = FirstBad))
    /\ [][ (MalformedInput /\ pc = "loop" /\ i = FirstBad) => pc' = "error" ]_vars

(* the abort happens at the third line, after two records were counted *)
C5_Witness ==
    /\ pc = "error"
    /\ i = 3
    /\ pipeline_count + audio_engine_count = 2
    /\ Cardinality(SepAt(lines[3])) = 1
    /\ ~IsInt(StampField(lines[3]))
    /\ calls = <<>>

ExpectedCalls ==
    << <<"plot", x_pipeline, y_pipeline, "pipeline">>,
       <<"plot", x_audio_engine, y_audio_engine, "audio_engine">>,
       <<"xlabel", "Time">>,
       <<"ylabel", "Count">>,
       <<"legend">>,
       <<"show">> >>

(* C7: no chart call is made before every line has been consumed; the     *)
(* calls made so far are always the leading part of: plot pipeline, plot   *)
(* audio_engine, xlabel Time, ylabel Count, legend, show, the plots        *)
(* carrying the series as they still are; the finished run has made all    *)
(* six, show last and once; no step after the loop changes the series.     *)
C7_LinearPipeline ==
    /\ [](/\ calls # <<>> => (LoopFinished /\ i = Len(FileLines) + 1)
          /\ Len(calls) <= Len(ExpectedCalls)
          /\ calls = SubSeq(ExpectedCalls, 1, Len(calls))
          /\ pc = "done" => calls = ExpectedCalls
          /\ pc = "error" => calls = <<>>)
    /\ [][ LoopFinished => (LoopFinished' /\ UNCHANGED <<series, counters>>
                            /\ Len(calls') = Len(calls) + 1) ]_vars

(* a finished run whose audio_engine series is empty still drew its line *)
C7_Witness ==
    /\ pc = "done"
    /\ x_audio_engine = <<>>
    /\ Len(x_pipeline) = 2
    /\ calls[2] = <<"plot", <<>>, <<>>, "audio_engine">>
    /\ calls[6] = <<"show">>

Parallel(x, y, count) ==
    /\ Len(x) = Len(y)
    /\ Len(y) = count
    /\ (y # <<>> => y[Len(y)] = count)

(* C8: in every state, the abort state included, the timestamp list and    *)
(* the count list of each tracked kind have the same length, which is the  *)
(* kind's counter, and the last count equals the counter.                  *)
C8_ParallelArrays ==
    /\ Parallel(x_pipeline, y_pipeline, pipeline_count)
    /\ Parallel(x_audio_engine, y_audio_engine, audio_engine_count)

(* the state at an abort, with records of both kinds counted before it *)
C8_Witness ==
    /\ pc = "error"
    /\ pipeline_count = 1
    /\ audio_engine_count = 1
    /\ Len(x_audio_engine) = 1

AllWhitespace(s) == \A k \in 1..Len(s) : s[k] \in Whitespace

BlankInside ==
    \E j \in 2..(Len(FileLines) - 1) : AllWhitespace(FileLines[j])

(* C9: an empty or whitespace-only file is read as exactly one empty line  *)
(* and the run aborts on it with no chart call; a blank line between two   *)
(* records aborts the run too; whitespace and blank lines around the       *)
(* content are trimmed: the lines read are those of the trimmed content,   *)
(* and an abort is always at a malformed line of the trimmed content.      *)
C9_BlankContentAborts ==
    /\ []((AllWhitespace(data) /\ pc # "read") =>
            /\ lines = << <<>> >>
            /\ pc \in {"loop", "error"}
            /\ i = 1
            /\ calls = <<>>)
    /\ [][ (AllWhitespace(data) /\ pc = "loop") => pc' = "error" ]_vars
    /\ [](BlankInside => (calls = <<>> /\ pc \in {"read", "loop", "error"}))
    /\ [](pc # "read" =>
            /\ lines = FileLines
            /\ (~AllWhitespace(data) =>
                   /\ lines[1][1] \notin Whitespace
                   /\ lines[Len(lines)][Len(lines[Len(lines)])] \notin Whitespace))
    /\ [](pc = "error" => ~WellFormedLine(FileLines[i]))

(* a whitespace-only file has aborted on its single empty line *)
C9_Witness ==
    /\ pc = "error"
    /\ data # <<>>
    /\ AllWhitespace(data)
    /\ lines = << <<>> >>
    /\ calls = <<>>

(* C10: the parse check comes before the kind is looked at: at a line that *)
(* is not '<kind>, <integer>' the step aborts the run also when the text   *)
(* before the separator is not a tracked kind; every line the loop has     *)
(* passed, counted or ignored, had parsed.                                 *)
C10_ParseBeforeDispatch ==
    /\ [][ (InLoop /\ KindField(lines[i]) \notin Tracked
                   /\ ~WellFormedLine(lines[i]))
             => (pc' = "error" /\ UNCHANGED <<i, counters, series, calls>>) ]_vars
    /\ [](pc \in {"loop", "error"} =>
            \A k \in 1..(i - 1) : WellFormedLine(lines[k]))

(* the abort is at a line with one separator, an unknown kind and a       *)
(* timestamp field that is not an integer                                 *)
C10_Witness ==
    /\ pc = "error"
    /\ i = 2
    /\ Cardinality(SepAt(lines[i])) = 1
    /\ KindField(lines[i]) \notin Tracked
    /\ ~IsInt(StampField(lines[i]))

====
